---- MODULE Spec2Model ----
(***************************************************************************)
(* Model of the IRC <-> completion-backend relay of src/src/main.rs:       *)
(* the inbound listener that buffers messages per sender, the flush         *)
(* scheduler task, the bounded dispatch channel, the processor task with   *)
(* its history, and the pure function split_into_chunks.                   *)
(*                                                                         *)
(* Strings are sequences of characters.  A character is a one-element name *)
(* ("a", " ", "nl" newline, "bt" backtick, "ue" a two-byte character).     *)
(* Time is counted in clock units; the source's durations are scaled to    *)
(* TickPeriod, TTL and InterChunkDelay below.                              *)
(***************************************************************************)
EXTENDS Integers, Sequences, FiniteSets, TLC

\* ------------------------------------------------------------------ bounds
MaxTime == 4        \* the clock stops advancing here
MaxRecords == 3     \* inbound channel messages accepted in one run
MaxTextLen == 5     \* longest input of the chunker specification
MaxMaxSize == 3     \* largest max_size of the chunker specification
TTL == 2            \* debounce window (Duration::from_secs(1)), scaled
TickPeriod == 1     \* scheduler interval (from_millis(100)), scaled
QueueCap == 1       \* mpsc::channel capacity (100), scaled
ChunkLimit == 2     \* max_size of the processor's call (500), scaled
InterChunkDelay == 1 \* sleep between chunk sends (from_millis(100)), scaled

\* ------------------------------------------------------------- characters
Whitespace == {" ", "nl"}

\* char::len_utf8: the number of bytes str::len counts for the character
Width(c) == IF c = "ue" THEN 2 ELSE 1

RECURSIVE ByteLen(_)
\* str::len / String::len: length in bytes
ByteLen(s) == IF s = <<>> THEN 0 ELSE Width(Head(s)) + ByteLen(Tail(s))

RECURSIVE Concat(_)
\* concatenation of a sequence of strings
Concat(ss) == IF ss = <<>> THEN <<>> ELSE Head(ss) \o Concat(Tail(ss))

RECURSIVE Join(_, _)
\* [String]::join(sep)
Join(ss, sep) ==
    IF ss = <<>> THEN <<>>
    ELSE IF Len(ss) = 1 THEN Head(ss)
    ELSE Head(ss) \o sep \o Join(Tail(ss), sep)

RECURSIVE SplitWs(_, _, _)
\* str::split_whitespace: the maximal runs of non-whitespace characters
SplitWs(text, word, acc) ==
    IF text = <<>>
    THEN IF word = <<>> THEN acc ELSE Append(acc, word)
    ELSE IF Head(text) \in Whitespace
         THEN SplitWs(Tail(text), <<>>,
                      IF word = <<>> THEN acc ELSE Append(acc, word))
         ELSE SplitWs(Tail(text), Append(word, Head(text)), acc)

split_whitespace(text) == SplitWs(text, <<>>, <<>>)

RECURSIVE CharChunks(_, _)
\* word.chars().collect::<Vec<_>>().chunks(max_size): slices of max_size
\* characters, the last one possibly shorter
CharChunks(word, max_size) ==
    IF word = <<>> THEN <<>>
    ELSE IF Len(word) <= max_size THEN <<word>>
    ELSE <<SubSeq(word, 1, max_size)>>
         \o CharChunks(SubSeq(word, max_size + 1, Len(word)), max_size)

\* a chunker body that keeps the pending chunk back when an oversized word
\* comes, so that it is emitted after the word's slices
SplitStepKeepsCurrent(st, word, max_size) ==
    IF ByteLen(word) > max_size
    THEN [chunks |-> st.chunks \o CharChunks(word, max_size),
          current |-> st.current]
    ELSE LET full == ByteLen(st.current) + ByteLen(word) + 1 > max_size
                     /\ st.current # <<>>
             chunks1 == IF full THEN Append(st.chunks, st.current)
                        ELSE st.chunks
             cur1 == IF full THEN <<>> ELSE st.current
             cur2 == IF cur1 # <<>> THEN Append(cur1, " ") ELSE cur1
         IN [chunks |-> chunks1, current |-> cur2 \o word]

\* a chunker body that loses the pending chunk when an oversized word comes
SplitStepDropsCurrent(st, word, max_size) ==
    IF ByteLen(word) > max_size
    THEN [chunks |-> st.chunks \o CharChunks(word, max_size),
          current |-> <<>>]
    ELSE LET full == ByteLen(st.current) + ByteLen(word) + 1 > max_size
                     /\ st.current # <<>>
             chunks1 == IF full THEN Append(st.chunks, st.current)
                        ELSE st.chunks
             cur1 == IF full THEN <<>> ELSE st.current
             cur2 == IF cur1 # <<>> THEN Append(cur1, " ") ELSE cur1
         IN [chunks |-> chunks1, current |-> cur2 \o word]

\* a chunker body that forgets the separating space in the size test
SplitStepNoSeparator(st, word, max_size) ==
    IF ByteLen(word) > max_size
    THEN [chunks |-> (IF st.current # <<>>
                      THEN Append(st.chunks, st.current)
                      ELSE st.chunks) \o CharChunks(word, max_size),
          current |-> <<>>]
    ELSE LET full == ByteLen(st.current) + ByteLen(word) > max_size
                     /\ st.current # <<>>
             chunks1 == IF full THEN Append(st.chunks, st.current)
                        ELSE st.chunks
             cur1 == IF full THEN <<>> ELSE st.current
             cur2 == IF cur1 # <<>> THEN Append(cur1, " ") ELSE cur1
         IN [chunks |-> chunks1, current |-> cur2 \o word]

\* one iteration of the loop over the words (main.rs 240-266)
SplitStep(st, word, max_size) ==
    IF ByteLen(word) > max_size
    THEN [chunks |-> (IF st.current # <<>>
                      THEN Append(st.chunks, st.current)
                      ELSE st.chunks) \o CharChunks(word, max_size),
          current |-> <<>>]
    ELSE LET full == ByteLen(st.current) + ByteLen(word) + 1 > max_size
                     /\ st.current # <<>>
             chunks1 == IF full THEN Append(st.chunks, st.current)
                        ELSE st.chunks
             cur1 == IF full THEN <<>> ELSE st.current
             cur2 == IF cur1 # <<>> THEN Append(cur1, " ") ELSE cur1
         IN [chunks |-> chunks1, current |-> cur2 \o word]

RECURSIVE SplitLoop(_, _, _)
SplitLoop(st, words, max_size) ==
    IF words = <<>> THEN st
    ELSE SplitLoop(SplitStep(st, Head(words), max_size), Tail(words), max_size)

\* fn split_into_chunks(text: &str, max_size: usize) -> Vec<String>
split_into_chunks(text, max_size) ==
    LET st == SplitLoop([chunks |-> <<>>, current |-> <<>>],
                        split_whitespace(text), max_size)
    IN IF st.current # <<>> THEN Append(st.chunks, st.current) ELSE st.chunks

\* ---------------------------------------------------------------- inputs
Nickname == <<"n">>                  \* args.nickname, the bot's own nick
Senders == {<<"a">>, <<"c">>}        \* source nicknames seen on the channel
\* PRIVMSG bodies, in the order the stream delivers them
Stream == <<<<"x">>, <<"y">>, <<"z">>, <<"w">>, <<"v">>>>
\* contents of choices[0] the completion backend may return
Completions == {<<"o", "nl", "k", "bt">>}
Alphabet == {"a", "ue", " ", "nl"}   \* characters of the chunker's inputs

VARIABLES
    leader,          \* args.leader
    now,             \* the clock read by Instant::now()
    next_tick,       \* deadline of the scheduler's interval
    message_buffer,  \* HashMap<String, (Vec<String>, Instant)>
    buffer_lock,     \* holder of the message_buffer mutex
    in_pc, in_msg,   \* main loop: position and the PRIVMSG being recorded
    sched_pc,        \* flush scheduler task: position
    scan_now,        \* its local `now`
    to_process,      \* its local Vec of (sender, combined_msg)
    queue,           \* the mpsc channel buffer_tx -> buffer_rx
    proc_pc,         \* processor task: position
    cur,             \* its (sender, msg)
    request,         \* its request.messages
    reply, chunks,   \* its reply and the chunks not yet sent
    sleep_until,     \* deadline of its time::sleep
    history,         \* Vec<String> behind the history mutex
    history_lock,    \* holder of the history mutex
    nrec,            \* number of PRIVMSGs taken from the stream
    last_record,     \* per sender, time of the latest completed record
    recorded,        \* per sender, every message recorded, in order
    covered,         \* per sender, how many of them earlier flushes took
    flushed,         \* per sender, the combined texts flushed, in order
    ulog,            \* per unit received by the processor: its history
                     \* index, snapshot length, backend calls issued,
                     \* outcome, chunk sends and whether a reply was pushed
    rx_closed,       \* buffer_rx has been dropped with the processor task
    last_gap,        \* per sender, time between its two latest records
    overtaken,       \* per sender, a record came while a unit of the sender
                     \* waited for room on the channel
    dispatched,      \* per sender, the texts put on the channel, in order
    dropped,         \* per sender, the texts whose send failed, in order
    sp_pc, sp_text, sp_max, sp_out   \* the chunker specification

aggVars == <<now, next_tick, message_buffer, buffer_lock, in_pc, in_msg,
             sched_pc, scan_now, to_process, queue, nrec, last_record,
             recorded, covered, flushed>>
procVars == <<leader, proc_pc, cur, request, reply, chunks, sleep_until,
              history, history_lock, ulog>>
auxVars == <<rx_closed, last_gap, overtaken, dispatched, dropped>>
splitVars == <<sp_pc, sp_text, sp_max, sp_out>>
vars == <<aggVars, procVars, auxVars, splitVars>>

NoUnit == <<>>

PipelineInit ==
    /\ now = 0
    /\ next_tick = 0
    /\ message_buffer = <<>>
    /\ buffer_lock = "free"
    /\ in_pc = "stream"
    /\ in_msg = NoUnit
    /\ sched_pc = "tick"
    /\ scan_now = 0
    /\ to_process = <<>>
    /\ queue = <<>>
    /\ proc_pc = "recv"
    /\ cur = NoUnit
    /\ request = <<>>
    /\ reply = <<>>
    /\ chunks = <<>>
    /\ sleep_until = 0
    /\ history = <<>>
    /\ history_lock = "free"
    /\ nrec = 0
    /\ last_record = [s \in Senders |-> -1]
    /\ recorded = [s \in Senders |-> <<>>]
    /\ covered = [s \in Senders |-> 0]
    /\ flushed = [s \in Senders |-> <<>>]
    /\ ulog = <<>>
    /\ rx_closed = FALSE
    /\ last_gap = [s \in Senders |-> -1]
    /\ overtaken = [s \in Senders |-> FALSE]
    /\ dispatched = [s \in Senders |-> <<>>]
    /\ dropped = [s \in Senders |-> <<>>]

SplitIdle ==
    /\ sp_pc = "off"
    /\ sp_text = <<>>
    /\ sp_max = 1
    /\ sp_out = <<>>

Init ==
    /\ leader \in BOOLEAN
    /\ PipelineInit
    /\ SplitIdle

\* ------------------------------------------------------ the clock

Advance ==
    /\ now < MaxTime
    /\ now' = now + 1
    /\ UNCHANGED <<next_tick, message_buffer, buffer_lock, in_pc, in_msg,
                   sched_pc, scan_now, to_process, queue, nrec, last_record,
                   recorded, covered, flushed>>
    /\ UNCHANGED <<procVars, splitVars>>
    /\ UNCHANGED auxVars

\* ------------------------------------------------- inbound listener (main)

\* stream.next() yields a PRIVMSG to the configured channel (276-284)
InboundArrive(sender, msg) ==
    /\ in_pc = "stream"
    /\ nrec < MaxRecords
    /\ msg = Stream[nrec + 1]
    /\ in_pc' = "lock"
    /\ in_msg' = <<sender, msg>>
    /\ nrec' = nrec + 1
    /\ UNCHANGED <<now, next_tick, message_buffer, buffer_lock, sched_pc,
                   scan_now, to_process, queue, last_record, recorded,
                   covered, flushed>>
    /\ UNCHANGED <<procVars, splitVars>>
    /\ UNCHANGED auxVars

\* message_buffer.lock().await (287)
InboundLock ==
    /\ in_pc = "lock"
    /\ buffer_lock = "free"
    /\ buffer_lock' = "main"
    /\ in_pc' = "insert"
    /\ UNCHANGED <<now, next_tick, message_buffer, in_msg, sched_pc,
                   scan_now, to_process, queue, nrec, last_record, recorded,
                   covered, flushed>>
    /\ UNCHANGED <<procVars, splitVars>>
    /\ UNCHANGED auxVars

\* buffer_guard.entry(sender).or_insert((Vec::new(), Instant::now())) (288)
OrInsert(buf, sender, t) ==
    IF sender \in DOMAIN buf THEN buf
    ELSE [s \in DOMAIN buf \cup {sender} |->
            IF s = sender THEN [msgs |-> <<>>, last_instant |-> t]
            ELSE buf[s]]

\* line 288: the entry is looked up, or created with no message
InboundInsert ==
    /\ in_pc = "insert"
    /\ message_buffer' = OrInsert(message_buffer, in_msg[1], now)
    /\ in_pc' = "record"
    /\ UNCHANGED <<now, next_tick, buffer_lock, in_msg, sched_pc, scan_now,
                   to_process, queue, nrec, last_record, recorded, covered,
                   flushed>>
    /\ UNCHANGED <<procVars, splitVars>>
    /\ UNCHANGED auxVars

\* a record that replaces the pending messages by the new one
RecordOverwrites(buf, sender, msg, t) ==
    [buf EXCEPT ![sender] = [msgs |-> <<msg>>, last_instant |-> t]]

\* entry.0.push(msg.clone()); entry.1 = Instant::now() (289-290)
Record(buf, sender, msg, t) ==
    [buf EXCEPT ![sender] = [msgs |-> Append(@.msgs, msg),
                             last_instant |-> t]]

\* lines 289-291: the push under the lock; the guard drops at the block end
InboundRecord ==
    /\ in_pc = "record"
    /\ message_buffer' = Record(message_buffer, in_msg[1], in_msg[2], now)
    /\ buffer_lock' = "free"
    /\ in_pc' = "stream"
    /\ in_msg' = NoUnit
    /\ last_record' = [last_record EXCEPT ![in_msg[1]] = now]
    /\ recorded' = [recorded EXCEPT ![in_msg[1]] = Append(@, in_msg[2])]
    /\ UNCHANGED <<now, next_tick, sched_pc, scan_now, to_process, queue,
                   nrec, covered, flushed>>
    /\ UNCHANGED <<procVars, splitVars>>
    /\ last_gap' = [last_gap EXCEPT ![in_msg[1]] =
                        IF last_record[in_msg[1]] < 0 THEN -1
                        ELSE now - last_record[in_msg[1]]]
    /\ overtaken' = [overtaken EXCEPT ![in_msg[1]] =
                         \/ @
                         \/ /\ sched_pc = "send"
                            /\ Len(queue) = QueueCap
                            /\ ~rx_closed
                            /\ \E i \in 1..Len(to_process) :
                                  to_process[i][1] = in_msg[1]]
    /\ UNCHANGED <<rx_closed, dispatched, dropped>>

\* ------------------------------------------------ flush scheduler task

\* interval.tick().await (120-122): the first tick is due at once, each
\* later one a period after the previous deadline
SchedTick ==
    /\ sched_pc = "tick"
    /\ now >= next_tick
    /\ next_tick' = next_tick + TickPeriod
    /\ sched_pc' = "lock"
    /\ UNCHANGED <<now, message_buffer, buffer_lock, in_pc, in_msg, scan_now,
                   to_process, queue, nrec, last_record, recorded, covered,
                   flushed>>
    /\ UNCHANGED <<procVars, splitVars>>
    /\ UNCHANGED auxVars

\* buffer_clone.lock().await; let now = Instant::now() (124-126)
SchedLock ==
    /\ sched_pc = "lock"
    /\ buffer_lock = "free"
    /\ buffer_lock' = "sched"
    /\ scan_now' = now
    /\ sched_pc' = "scan"
    /\ UNCHANGED <<now, next_tick, message_buffer, in_pc, in_msg, to_process,
                   queue, nrec, last_record, recorded, covered, flushed>>
    /\ UNCHANGED <<procVars, splitVars>>
    /\ UNCHANGED auxVars

\* an expiry test that fires one clock unit early
IsExpiredEarly(t, last_instant) ==
    (IF t >= last_instant THEN t - last_instant ELSE 0) >= TTL - 1

\* now.duration_since(*last_instant) >= Duration::from_secs(1) (130)
IsExpired(t, last_instant) ==
    (IF t >= last_instant THEN t - last_instant ELSE 0) >= TTL

\* the orders in which iter_mut() may visit the senders in S
Orderings(S) ==
    {o \in [1..Cardinality(S) -> S] :
        \A i, j \in 1..Cardinality(S) : o[i] = o[j] => i = j}

\* a combined text that takes the messages newest first
CombineReversed(msgs) ==
    Join([i \in 1..Len(msgs) |-> msgs[Len(msgs) + 1 - i]], <<" ">>)

\* msgs.join(" ") (132)
Combine(msgs) == Join(msgs, <<" ">>)

\* the for loop over buffer_guard.iter_mut() (129-137)
SchedScan ==
    /\ sched_pc = "scan"
    /\ LET F == {s \in DOMAIN message_buffer :
                    IsExpired(scan_now, message_buffer[s].last_instant)}
       IN /\ \E o \in Orderings(F) :
                to_process' = [i \in 1..Cardinality(F) |->
                                 <<o[i], Combine(message_buffer[o[i]].msgs)>>]
          /\ message_buffer' =
                [s \in DOMAIN message_buffer |->
                    IF s \in F
                    THEN [message_buffer[s] EXCEPT !.msgs = <<>>]
                    ELSE message_buffer[s]]
          /\ flushed' = [s \in Senders |->
                           IF s \in F
                           THEN Append(flushed[s],
                                       Combine(message_buffer[s].msgs))
                           ELSE flushed[s]]
          /\ covered' = [s \in Senders |->
                           IF s \in F THEN Len(recorded[s]) ELSE covered[s]]
    /\ sched_pc' = "retain"
    /\ UNCHANGED <<now, next_tick, buffer_lock, in_pc, in_msg, scan_now,
                   queue, nrec, last_record, recorded>>
    /\ UNCHANGED <<procVars, splitVars>>
    /\ UNCHANGED auxVars

\* a retain that removes nothing
RetainKeepsAll(buf) == buf

\* buffer_guard.retain(|_, (msgs, _)| !msgs.is_empty()) (140)
Retain(buf) ==
    [s \in {x \in DOMAIN buf : buf[x].msgs # <<>>} |-> buf[s]]

\* a scheduler that keeps the guard while it sends
SchedRetainKeepsGuard ==
    /\ sched_pc = "retain"
    /\ message_buffer' = Retain(message_buffer)
    /\ sched_pc' = "send"
    /\ UNCHANGED <<now, next_tick, buffer_lock, in_pc, in_msg, scan_now,
                   to_process, queue, nrec, last_record, recorded, covered,
                   flushed>>
    /\ UNCHANGED <<procVars, splitVars>>
    /\ UNCHANGED auxVars

\* retain, then drop(buffer_guard) (140-142)
SchedRetainDrop ==
    /\ sched_pc = "retain"
    /\ message_buffer' = Retain(message_buffer)
    /\ buffer_lock' = "free"
    /\ sched_pc' = "send"
    /\ UNCHANGED <<now, next_tick, in_pc, in_msg, scan_now, to_process,
                   queue, nrec, last_record, recorded, covered, flushed>>
    /\ UNCHANGED <<procVars, splitVars>>
    /\ UNCHANGED auxVars

\* a send that puts a unit whose send failed back into the table
SchedSendReinserts ==
    /\ sched_pc = "send"
    /\ to_process # <<>>
    /\ IF rx_closed
       THEN /\ queue' = queue
            /\ message_buffer' =
                  Record(OrInsert(message_buffer, Head(to_process)[1], now),
                         Head(to_process)[1], Head(to_process)[2], now)
            /\ dropped' = [dropped EXCEPT ![Head(to_process)[1]] =
                              Append(@, Head(to_process)[2])]
            /\ dispatched' = dispatched
       ELSE /\ Len(queue) < QueueCap
            /\ queue' = Append(queue, Head(to_process))
            /\ message_buffer' = message_buffer
            /\ dispatched' = [dispatched EXCEPT ![Head(to_process)[1]] =
                                 Append(@, Head(to_process)[2])]
            /\ dropped' = dropped
    /\ to_process' = Tail(to_process)
    /\ UNCHANGED <<now, next_tick, buffer_lock, in_pc, in_msg, sched_pc,
                   scan_now, nrec, last_record, recorded, covered, flushed>>
    /\ UNCHANGED <<procVars, splitVars>>
    /\ UNCHANGED <<rx_closed, last_gap, overtaken>>

\* a send that gives up (try_send) when the channel is full
SchedSendDropsWhenFull ==
    /\ sched_pc = "send"
    /\ to_process # <<>>
    /\ IF rx_closed \/ Len(queue) >= QueueCap
       THEN /\ queue' = queue
            /\ dropped' = [dropped EXCEPT ![Head(to_process)[1]] =
                              Append(@, Head(to_process)[2])]
            /\ dispatched' = dispatched
       ELSE /\ queue' = Append(queue, Head(to_process))
            /\ dispatched' = [dispatched EXCEPT ![Head(to_process)[1]] =
                                 Append(@, Head(to_process)[2])]
            /\ dropped' = dropped
    /\ to_process' = Tail(to_process)
    /\ UNCHANGED <<now, next_tick, message_buffer, buffer_lock, in_pc,
                   in_msg, sched_pc, scan_now, nrec, last_record, recorded,
                   covered, flushed>>
    /\ UNCHANGED <<procVars, splitVars>>
    /\ UNCHANGED <<rx_closed, last_gap, overtaken>>

\* buffer_tx.send(..).await for the next candidate (144-148): the send
\* suspends while the channel holds QueueCap units, and fails, the unit
\* being logged and dropped, once the receiver is gone
SchedSend ==
    /\ sched_pc = "send"
    /\ to_process # <<>>
    /\ IF rx_closed
       THEN /\ queue' = queue
            /\ dropped' = [dropped EXCEPT ![Head(to_process)[1]] =
                              Append(@, Head(to_process)[2])]
            /\ dispatched' = dispatched
       ELSE /\ Len(queue) < QueueCap
            /\ queue' = Append(queue, Head(to_process))
            /\ dispatched' = [dispatched EXCEPT ![Head(to_process)[1]] =
                                 Append(@, Head(to_process)[2])]
            /\ dropped' = dropped
    /\ to_process' = Tail(to_process)
    /\ UNCHANGED <<now, next_tick, message_buffer, buffer_lock, in_pc,
                   in_msg, sched_pc, scan_now, nrec, last_record, recorded,
                   covered, flushed>>
    /\ UNCHANGED <<procVars, splitVars>>
    /\ UNCHANGED <<rx_closed, last_gap, overtaken>>

\* end of the for loop over to_process: back to interval.tick() (149)
SchedLoop ==
    /\ sched_pc = "send"
    /\ to_process = <<>>
    /\ sched_pc' = "tick"
    /\ UNCHANGED <<now, next_tick, message_buffer, buffer_lock, in_pc,
                   in_msg, scan_now, to_process, queue, nrec, last_record,
                   recorded, covered, flushed>>
    /\ UNCHANGED <<procVars, splitVars>>
    /\ UNCHANGED auxVars

\* ------------------------------------------------------ processor task

\* format!("{} - {}", author, text) (162, 228)
Format(author, text) == author \o <<" ", "-", " ">> \o text

RECURSIVE UpToSpace(_)
UpToSpace(s) ==
    IF s = <<>> \/ Head(s) = " " THEN <<>>
    ELSE <<Head(s)>> \o UpToSpace(Tail(s))

\* the author a history line was formatted with: a nickname holds no space,
\* so it is the text before the first one
AuthorOf(entry) == UpToSpace(entry)

\* the loop over history_guard.iter() (164-176): the role of every turn is
\* decided by the sender of the unit being processed
BuildRequest(hist, sender) ==
    [i \in 1..Len(hist) |->
        [content |-> hist[i],
         role |-> IF sender = Nickname THEN "assistant" ELSE "user"]]

RECURSIVE Replace(_, _, _)
\* str::replace(from, to) for a one-character pattern
Replace(s, from, to) ==
    IF s = <<>> THEN <<>>
    ELSE (IF Head(s) = from THEN to ELSE <<Head(s)>>)
         \o Replace(Tail(s), from, to)

NoResponse ==
    <<"N", "o", " ", "r", "e", "s", "p", "o", "n", "s", "e", " ", "f", "r",
      "o", "m", " ", "O", "p", "e", "n", "A", "I", ".">>

\* response.choices.first()...replace('\n', " ").replace('`', "") (206-210)
ReplyOf(choices) ==
    Replace(Replace(IF choices = <<>> THEN NoResponse ELSE choices[1],
                    "nl", <<" ">>),
            "bt", <<>>)

\* buffer_rx.recv().await yields the oldest unit (154)
ProcRecv ==
    /\ proc_pc = "recv"
    /\ queue # <<>>
    /\ cur' = Head(queue)
    /\ queue' = Tail(queue)
    /\ proc_pc' = "lock"
    /\ ulog' = Append(ulog, [unit |-> Head(queue), hidx |-> 0, snaplen |-> 0,
                             calls |-> 0, outcome |-> "none", reply |-> <<>>,
                             sent |-> <<>>, replied |-> FALSE])
    /\ UNCHANGED <<now, next_tick, message_buffer, buffer_lock, in_pc,
                   in_msg, sched_pc, scan_now, to_process, nrec, last_record,
                   recorded, covered, flushed>>
    /\ UNCHANGED <<leader, request, reply, chunks, sleep_until, history,
                   history_lock>>
    /\ UNCHANGED splitVars
    /\ UNCHANGED auxVars

\* history_clone.lock().await (159)
ProcLock ==
    /\ proc_pc = "lock"
    /\ history_lock = "free"
    /\ history_lock' = "proc"
    /\ proc_pc' = "build"
    /\ UNCHANGED aggVars
    /\ UNCHANGED <<leader, cur, request, reply, chunks, sleep_until, history,
                   ulog>>
    /\ UNCHANGED splitVars
    /\ UNCHANGED auxVars

\* push the unit's line and build the request from the history (162-183)
ProcBuild ==
    /\ proc_pc = "build"
    /\ history' = Append(history, Format(cur[1], cur[2]))
    /\ request' = BuildRequest(history', cur[1])
    /\ ulog' = [ulog EXCEPT ![Len(ulog)].hidx = Len(history'),
                            ![Len(ulog)].snaplen = Len(request')]
    /\ proc_pc' = "drop"
    /\ UNCHANGED aggVars
    /\ UNCHANGED <<leader, cur, reply, chunks, sleep_until, history_lock>>
    /\ UNCHANGED splitVars
    /\ UNCHANGED auxVars

\* the cold-start test, with the bound one too high
SkipsLate(lead, req) == ~lead /\ Len(req) < 3

\* the cold-start test, with the bound one too low
SkipsOffByOne(lead, req) == ~lead /\ Len(req) < 1

\* !leader_clone && request.messages.len() < 2 (189)
Skips(lead, req) == ~lead /\ Len(req) < 2

\* a processor that goes on to the backend call with the guard alive
ProcDropKeepsGuard ==
    /\ proc_pc = "drop"
    /\ IF Skips(leader, request)
       THEN /\ proc_pc' = "recv"
            /\ ulog' = [ulog EXCEPT ![Len(ulog)].outcome = "skipped"]
       ELSE /\ proc_pc' = "call"
            /\ ulog' = [ulog EXCEPT ![Len(ulog)].calls = @ + 1]
    /\ UNCHANGED aggVars
    /\ UNCHANGED <<leader, cur, request, reply, chunks, sleep_until, history,
                   history_lock>>
    /\ UNCHANGED splitVars
    /\ UNCHANGED auxVars

\* drop(history_guard), then the cold-start test (186-192)
ProcDrop ==
    /\ proc_pc = "drop"
    /\ history_lock' = "free"
    /\ IF Skips(leader, request)
       THEN /\ proc_pc' = "recv"
            /\ ulog' = [ulog EXCEPT ![Len(ulog)].outcome = "skipped"]
       ELSE /\ proc_pc' = "call"
            /\ ulog' = [ulog EXCEPT ![Len(ulog)].calls = @ + 1]
    /\ UNCHANGED aggVars
    /\ UNCHANGED <<leader, cur, request, reply, chunks, sleep_until, history>>
    /\ UNCHANGED splitVars
    /\ UNCHANGED auxVars

\* a processor that asks the backend once more after an error
ProcCallErrRetries ==
    /\ proc_pc = "call"
    /\ IF ulog[Len(ulog)].calls = 1
       THEN /\ ulog' = [ulog EXCEPT ![Len(ulog)].calls = @ + 1,
                                    ![Len(ulog)].outcome = "err"]
            /\ proc_pc' = "call"
       ELSE /\ ulog' = [ulog EXCEPT ![Len(ulog)].outcome = "err"]
            /\ proc_pc' = "recv"
    /\ UNCHANGED aggVars
    /\ UNCHANGED <<leader, cur, request, reply, chunks, sleep_until, history,
                   history_lock>>
    /\ UNCHANGED splitVars
    /\ UNCHANGED auxVars

\* a processor that takes the unit's turn out of the history on an error
ProcCallErrRollsBack ==
    /\ proc_pc = "call"
    /\ ulog' = [ulog EXCEPT ![Len(ulog)].outcome = "err"]
    /\ history' = SubSeq(history, 1, Len(history) - 1)
    /\ proc_pc' = "recv"
    /\ UNCHANGED aggVars
    /\ UNCHANGED <<leader, cur, request, reply, chunks, sleep_until,
                   history_lock>>
    /\ UNCHANGED splitVars
    /\ UNCHANGED auxVars

\* llm.chat_completions(&request).await returns Err (195-200)
ProcCallErr ==
    /\ proc_pc = "call"
    /\ ulog' = [ulog EXCEPT ![Len(ulog)].outcome = "err"]
    /\ proc_pc' = "recv"
    /\ UNCHANGED aggVars
    /\ UNCHANGED <<leader, cur, request, reply, chunks, sleep_until, history,
                   history_lock>>
    /\ UNCHANGED splitVars
    /\ UNCHANGED auxVars

\* the processor task ends inside the awaited backend call (a panic unwinding
\* out of it, or the task's cancellation there): buffer_rx is dropped and
\* with it the units still in the channel (153-154, 195)
ProcEnd ==
    /\ proc_pc = "call"
    /\ proc_pc' = "ended"
    /\ rx_closed' = TRUE
    /\ queue' = <<>>
    /\ ulog' = [ulog EXCEPT ![Len(ulog)].outcome = "ended"]
    /\ UNCHANGED <<now, next_tick, message_buffer, buffer_lock, in_pc,
                   in_msg, sched_pc, scan_now, to_process, nrec, last_record,
                   recorded, covered, flushed>>
    /\ UNCHANGED <<leader, cur, request, reply, chunks, sleep_until, history,
                   history_lock>>
    /\ UNCHANGED <<last_gap, overtaken, dispatched, dropped>>
    /\ UNCHANGED splitVars

\* llm.chat_completions(&request).await returns Ok; the reply is cleaned and
\* split (195-215)
ProcCallOk(choices) ==
    /\ proc_pc = "call"
    /\ reply' = ReplyOf(choices)
    /\ chunks' = split_into_chunks(reply', ChunkLimit)
    /\ ulog' = [ulog EXCEPT ![Len(ulog)].outcome = "ok",
                            ![Len(ulog)].reply = reply']
    /\ proc_pc' = IF chunks' = <<>> THEN "append" ELSE "chunk"
    /\ UNCHANGED aggVars
    /\ UNCHANGED <<leader, cur, request, sleep_until, history, history_lock>>
    /\ UNCHANGED splitVars
    /\ UNCHANGED auxVars

\* a chunk loop that abandons the reply at the first failed send
ProcSendChunkAborts(ok) ==
    /\ proc_pc = "chunk"
    /\ ulog' = [ulog EXCEPT ![Len(ulog)].sent =
                                Append(@, <<Head(chunks), ok>>)]
    /\ sleep_until' = now + InterChunkDelay
    /\ proc_pc' = IF ok THEN "sleep" ELSE "recv"
    /\ UNCHANGED aggVars
    /\ UNCHANGED <<leader, cur, request, reply, chunks, history, history_lock>>
    /\ UNCHANGED splitVars
    /\ UNCHANGED auxVars

\* client.send_privmsg(&channel_clone, &chunk), which may fail, then
\* time::sleep(100 ms) starts (219-223)
ProcSendChunk(ok) ==
    /\ proc_pc = "chunk"
    /\ ulog' = [ulog EXCEPT ![Len(ulog)].sent =
                                Append(@, <<Head(chunks), ok>>)]
    /\ sleep_until' = now + InterChunkDelay
    /\ proc_pc' = "sleep"
    /\ UNCHANGED aggVars
    /\ UNCHANGED <<leader, cur, request, reply, chunks, history, history_lock>>
    /\ UNCHANGED splitVars
    /\ UNCHANGED auxVars

\* the sleep elapses; next chunk, or the end of the for loop (218-224)
ProcWake ==
    /\ proc_pc = "sleep"
    /\ now >= sleep_until
    /\ chunks' = Tail(chunks)
    /\ proc_pc' = IF chunks' = <<>> THEN "append" ELSE "chunk"
    /\ UNCHANGED aggVars
    /\ UNCHANGED <<leader, cur, request, reply, sleep_until, history,
                   history_lock, ulog>>
    /\ UNCHANGED splitVars
    /\ UNCHANGED auxVars

\* a processor that pushes the reply twice
ProcAppendReplyTwice ==
    /\ proc_pc = "append"
    /\ history_lock = "free"
    /\ history' = Append(Append(history, Format(Nickname, reply)),
                         Format(Nickname, reply))
    /\ ulog' = [ulog EXCEPT ![Len(ulog)].replied = TRUE]
    /\ proc_pc' = "recv"
    /\ UNCHANGED aggVars
    /\ UNCHANGED <<leader, cur, request, reply, chunks, sleep_until,
                   history_lock>>
    /\ UNCHANGED splitVars
    /\ UNCHANGED auxVars

\* lock the history, push the reply; the guard drops at the end of the loop
\* body (226-232)
ProcAppendReply ==
    /\ proc_pc = "append"
    /\ history_lock = "free"
    /\ history' = Append(history, Format(Nickname, reply))
    /\ ulog' = [ulog EXCEPT ![Len(ulog)].replied = TRUE]
    /\ proc_pc' = "recv"
    /\ UNCHANGED aggVars
    /\ UNCHANGED <<leader, cur, request, reply, chunks, sleep_until,
                   history_lock>>
    /\ UNCHANGED splitVars
    /\ UNCHANGED auxVars

\* ------------------------------------------------------- specification

Next ==
    \/ Advance
    \/ \E s \in Senders, m \in {Stream[i] : i \in 1..Len(Stream)} :
          InboundArrive(s, m)
    \/ InboundLock
    \/ InboundInsert
    \/ InboundRecord
    \/ SchedTick
    \/ SchedLock
    \/ SchedScan
    \/ SchedRetainDrop
    \/ SchedSend
    \/ SchedLoop
    \/ ProcRecv
    \/ ProcLock
    \/ ProcBuild
    \/ ProcDrop
    \/ ProcCallErr
    \/ ProcEnd
    \/ \E c \in Completions : ProcCallOk(<<c>>)
    \/ \E ok \in BOOLEAN : ProcSendChunk(ok)
    \/ ProcWake
    \/ ProcAppendReply

Spec == Init /\ [][Next]_vars

\* A non-leader bot with a backend that never completes a request
\* successfully, under the scheduling the tokio runtime gives it: time passes, a task that
\* can take its next step is eventually polled, and a lock that stays free is
\* eventually granted. The backend and the IRC server are under no such
\* obligation, so the listener's arrivals and the processor get no fairness.
NextFair ==
    \/ Advance
    \/ \E s \in Senders, m \in {Stream[i] : i \in 1..Len(Stream)} :
          InboundArrive(s, m)
    \/ InboundLock
    \/ InboundInsert
    \/ InboundRecord
    \/ SchedTick
    \/ SchedLock
    \/ SchedScan
    \/ SchedRetainDrop
    \/ SchedSend
    \/ SchedLoop
    \/ ProcRecv
    \/ ProcLock
    \/ ProcBuild
    \/ ProcDrop
    \/ ProcCallErr
    \/ ProcEnd

\* the start of a bot that is not the conversation's leader
InitFollower == Init /\ ~leader

SpecFair ==
    /\ InitFollower
    /\ [][NextFair]_vars
    /\ WF_vars(Advance)
    /\ WF_vars(InboundLock)
    /\ WF_vars(InboundInsert)
    /\ WF_vars(InboundRecord)
    /\ WF_vars(SchedTick)
    /\ WF_vars(SchedLock)
    /\ WF_vars(SchedScan)
    /\ WF_vars(SchedRetainDrop)
    /\ WF_vars(SchedSend)
    /\ WF_vars(SchedLoop)

\* --------------------------------------- specification of the chunker

\* every text of at most n characters
TextsUpTo(n) == UNION {[1..k -> Alphabet] : k \in 0..n}

SplitInit ==
    /\ leader = FALSE
    /\ PipelineInit
    /\ sp_pc = "in"
    /\ sp_text \in TextsUpTo(MaxTextLen)
    /\ sp_max \in 1..MaxMaxSize
    /\ sp_out = <<>>

\* let reply_chunks = split_into_chunks(&text, max_size)
SplitCall ==
    /\ sp_pc = "in"
    /\ sp_out' = split_into_chunks(sp_text, sp_max)
    /\ sp_pc' = "done"
    /\ UNCHANGED <<sp_text, sp_max>>
    /\ UNCHANGED <<aggVars, procVars>>
    /\ UNCHANGED auxVars

SplitNext == SplitCall

SpecSplit == SplitInit /\ [][SplitNext]_vars

\* ------------------------------------------------- claims on the chunker

\* collapse whitespace: the tokens of the text, joined with single spaces
Normalized(text) == Join(split_whitespace(text), <<" ">>)

\* the chunks joined with single spaces
Rejoined(out) == Join(out, <<" ">>)

\* some token of the text is longer than max_size characters
HasLongToken(text, max_size) ==
    \E i \in 1..Len(split_whitespace(text)) :
        Len(split_whitespace(text)[i]) > max_size

\* C7: for every text and max_size > 0, split returns only non-empty chunks
\* of at most max_size characters, and no chunk at all when the text has no
\* non-whitespace character.
C7_ChunksBounded ==
    sp_pc = "done" =>
        /\ \A i \in 1..Len(sp_out) :
              sp_out[i] # <<>> /\ Len(sp_out[i]) <= sp_max
        /\ (\A j \in 1..Len(sp_text) : sp_text[j] \in Whitespace)
              => sp_out = <<>>

C7_Witness ==
    /\ sp_pc = "done"
    /\ HasLongToken(sp_text, sp_max)
    /\ Len(sp_out) >= 2
    /\ \E i \in 1..Len(sp_out) : Len(sp_out[i]) = sp_max /\ sp_max >= 2

\* C8 as claimed: re-joining the chunks with single spaces and collapsing
\* whitespace gives the whitespace-normalized original text, also when a
\* token is longer than max_size.
C8_RejoinIsOriginal ==
    sp_pc = "done" => Normalized(Rejoined(sp_out)) = Normalized(sp_text)

\* the tokens of the text, each cut into slices of max_size characters
SlicedTokens(text, max_size) ==
    LET toks == split_whitespace(text)
    IN Concat([i \in 1..Len(toks) |->
                  LET n == Len(toks[i])
                      k == (n + max_size - 1) \div max_size
                  IN [j \in 1..k |->
                        SubSeq(toks[i], (j - 1) * max_size + 1,
                               IF j * max_size < n THEN j * max_size ELSE n)]])

\* C8 amended: re-joining the chunks with single spaces and collapsing
\* whitespace gives the original tokens in order, except that every token
\* longer than max_size characters appears as its successive max_size
\* character slices; with no such token it is exactly the normalized text.
C8_RejoinIsSlicedOriginal ==
    sp_pc = "done" =>
        /\ split_whitespace(Rejoined(sp_out))
              = SlicedTokens(sp_text, sp_max)
        /\ ~HasLongToken(sp_text, sp_max)
              => Normalized(Rejoined(sp_out)) = Normalized(sp_text)

C8_Witness ==
    /\ sp_pc = "done"
    /\ HasLongToken(sp_text, sp_max)
    /\ Len(split_whitespace(sp_text)) >= 2
    /\ Len(sp_out) >= 3

\* ------------------------------------------- claims on the aggregator

\* the sender's messages recorded since its previous flush (or since start)
Unflushed(s) == SubSeq(recorded[s], covered[s] + 1, Len(recorded[s]))

\* the step produces a FlushedUnit for sender s
Flushes(s) == Len(flushed'[s]) > Len(flushed[s])

\* the listener is inside its locked record of a message of sender s
Recording(s) == in_pc = "record" /\ in_msg[1] = s

\* C1: a tick flushes a sender's entry only when now - last_activity >= TTL,
\* last_activity being the time of the sender's latest record; an entry idle
\* for less than TTL is never flushed, and every record restarts the window
\* (the entry's timestamp is the time of the latest record).
C1_NoEarlyFlush ==
    /\ [][\A s \in Senders :
            Flushes(s) => /\ last_record[s] >= 0
                          /\ scan_now - last_record[s] >= TTL
                          /\ now - last_record[s] >= TTL]_vars
    /\ [](\A s \in DOMAIN message_buffer :
            Recording(s) \/ message_buffer[s].last_instant = last_record[s])

\* one scan flushes a sender and leaves another, younger entry alone
C1_Witness ==
    /\ sched_pc = "retain"
    /\ \E s, t \in DOMAIN message_buffer :
          /\ message_buffer[s].msgs = <<>>
          /\ Len(recorded[s]) >= 2
          /\ message_buffer[t].msgs # <<>>
          /\ scan_now - message_buffer[t].last_instant < TTL

\* C2: a flushed sender is absent from the table once the tick's scan is
\* over and stays absent until its next record, and no FlushedUnit is made
\* for a sender without a record of that sender since its previous flush.
C2_NoDoubleFlush ==
    /\ [](\A s \in Senders :
            (flushed[s] # <<>> /\ Unflushed(s) = <<>> /\ sched_pc # "retain"
                /\ ~Recording(s))
                => s \notin DOMAIN message_buffer)
    /\ [][\A s \in Senders : Flushes(s) => Unflushed(s) # <<>>]_vars

\* a sender flushed twice, with a record in between, and absent again
C2_Witness ==
    \E s \in Senders :
        /\ Len(flushed[s]) = 2
        /\ s \notin DOMAIN message_buffer
        /\ sched_pc = "tick"

\* C3: the combined_text of every FlushedUnit is the sender's messages
\* recorded since that sender's previous flush, joined with single spaces in
\* arrival order; no other sender's message is in it.
C3_CombinedText ==
    [][(sched_pc = "scan" /\ sched_pc' = "retain") =>
          /\ \A i \in 1..Len(to_process') :
                /\ Flushes(to_process'[i][1])
                /\ to_process'[i][2]
                      = Join(Unflushed(to_process'[i][1]), <<" ">>)
          /\ \A s \in Senders :
                Flushes(s) => \E i \in 1..Len(to_process') :
                                  to_process'[i][1] = s]_vars

\* a unit made of two messages, while the other sender has recorded too
C3_Witness ==
    \E s, t \in Senders :
        /\ s # t
        /\ recorded[t] # <<>>
        /\ \E i \in 1..Len(to_process) :
              to_process[i][1] = s /\ Len(to_process[i][2]) >= 3

\* C9: the scheduler sends candidates only after releasing the table lock,
\* so whenever it is suspended on a full dispatch queue the lock is not its
\* own and an inbound record can take the lock and complete.
C9_SendWithoutLock ==
    /\ sched_pc = "send" => buffer_lock # "sched"
    /\ (sched_pc = "send" /\ to_process # <<>> /\ Len(queue) = QueueCap)
          => /\ (in_pc = "lock" => ENABLED InboundLock)
             /\ (in_pc = "insert" => ENABLED InboundInsert)
             /\ (in_pc = "record" => ENABLED InboundRecord)

\* the listener holds the lock while the scheduler waits on the full queue
C9_Witness ==
    /\ sched_pc = "send"
    /\ to_process # <<>>
    /\ Len(queue) = QueueCap
    /\ in_pc = "record"
    /\ buffer_lock = "main"

\* --------------------------------------------- claims on the processor

\* the processor has finished with the k-th unit it received
Done(k) == k < Len(ulog) \/ proc_pc = "recv"

\* the k-th unit's user turn is in the history, as it was pushed
TurnKept(k) ==
    /\ ulog[k].hidx \in 1..Len(history)
    /\ history[ulog[k].hidx] = Format(ulog[k].unit[1], ulog[k].unit[2])

\* C4: the request built for a unit has one turn per entry of the whole
\* history (the unit's own entry included), in history order, and a turn's
\* role is assistant exactly when the entry's author is the bot's nickname,
\* user otherwise.
C4_RolesByAuthor ==
    proc_pc \in {"drop", "call"} =>
        /\ Len(request) = Len(history)
        /\ \A i \in 1..Len(request) :
              /\ request[i].content = history[i]
              /\ request[i].role =
                    (IF AuthorOf(history[i]) = Nickname THEN "assistant"
                     ELSE "user")

\* C5: without leader, a unit whose snapshot has fewer than 2 entries never
\* reaches the backend, has no chunk sent and no reply appended, and its user
\* turn stays in the history; with leader, every unit reaches the backend.
C5_ColdStart ==
    \A k \in 1..Len(ulog) :
        /\ (~leader /\ ulog[k].hidx > 0 /\ ulog[k].snaplen < 2)
              => /\ ulog[k].calls = 0
                 /\ ulog[k].sent = <<>>
                 /\ ~ulog[k].replied
                 /\ TurnKept(k)
                 /\ (k = Len(ulog) => proc_pc \in {"drop", "recv"})
        /\ (leader /\ (Done(k) \/ (ulog[k].hidx > 0 /\ proc_pc # "drop")))
              => ulog[k].calls = 1

\* without leader: the first unit was suppressed, the second one was not
C5_Witness ==
    /\ ~leader
    /\ Len(ulog) >= 2
    /\ ulog[1].outcome = "skipped"
    /\ ulog[1].snaplen = 1
    /\ ulog[2].calls = 1
    /\ TurnKept(1)

\* C6: after a backend error for a unit the backend is not asked again for
\* it, no chunk is sent and no reply appended for it, its user turn stays in
\* the history as pushed, and the processor is back at the receive, where a
\* queued unit can be taken.
C6_BackendError ==
    \A k \in 1..Len(ulog) :
        ulog[k].outcome = "err" =>
            /\ ulog[k].calls = 1
            /\ ulog[k].sent = <<>>
            /\ ~ulog[k].replied
            /\ TurnKept(k)
            /\ Done(k)
            /\ (k = Len(ulog) => Len(history) = ulog[k].hidx)
            /\ (k = Len(ulog) /\ queue # <<>>) => ENABLED ProcRecv

\* a unit failed at the backend and the next unit has been taken and built
C6_Witness ==
    \E k \in 1..Len(ulog) :
        /\ ulog[k].outcome = "err"
        /\ k < Len(ulog)
        /\ ulog[k + 1].hidx = ulog[k].hidx + 1
        /\ TurnKept(k)

\* C10: while the processor waits on the backend call, is at a chunk send or
\* in the pause between chunks, it holds neither the history lock nor the
\* table lock; the request it waits with is the history snapshot taken
\* before the lock was released.
C10_NoLockWhileWaiting ==
    /\ proc_pc \in {"call", "chunk", "sleep"}
          => history_lock # "proc" /\ buffer_lock # "proc"
    /\ proc_pc = "call"
          => /\ history_lock = "free"
             /\ Len(request) = Len(history)
             /\ \A i \in 1..Len(request) : request[i].content = history[i]

\* the processor pauses between two chunks with both locks free
C10_Witness ==
    /\ proc_pc = "sleep"
    /\ now < sleep_until
    /\ Len(chunks) = 2
    /\ history_lock = "free"
    /\ buffer_lock = "free"

\* p is a prefix of q
IsPrefix(p, q) == Len(p) <= Len(q) /\ SubSeq(q, 1, Len(p)) = p

\* C11: the history is append-only: in every step the previous history is a
\* prefix of the next one, so no entry is removed, reordered or changed, also
\* on suppression, backend failure and chunk-send failure.
C11_AppendOnly == [][IsPrefix(history, history')]_vars

\* the history has grown after a backend failure and a failed chunk send
C11_Witness ==
    /\ \E k \in 1..Len(ulog) :
          ulog[k].outcome = "err" /\ Len(history) > ulog[k].hidx
    /\ \E k \in 1..Len(ulog) :
          /\ ulog[k].replied
          /\ \E i \in 1..Len(ulog[k].sent) : ~ulog[k].sent[i][2]

\* some entry of the table has no message
SomeEmpty == \E s \in DOMAIN message_buffer : message_buffer[s].msgs = <<>>

\* C12 as claimed: with the table lock free every sender in the table has a
\* message; an entry without messages exists only inside the scheduler's
\* locked scan and is removed before the lock is released.
C12_EmptyOnlyInScan ==
    /\ buffer_lock = "free" => ~SomeEmpty
    /\ SomeEmpty => buffer_lock = "sched" /\ sched_pc = "retain"

\* C12 amended: with the table lock free every sender in the table has a
\* message; an entry without messages exists only while the lock is held,
\* either inside the scheduler's scan (removed by retain before the drop) or
\* inside the listener's record, between the insertion of a new sender's
\* entry and the push of its message.
C12_EmptyOnlyUnderLock ==
    /\ buffer_lock = "free" => ~SomeEmpty
    /\ SomeEmpty =>
          \/ buffer_lock = "sched" /\ sched_pc = "retain"
          \/ /\ buffer_lock = "main" /\ in_pc = "record"
             /\ \A s \in DOMAIN message_buffer :
                   message_buffer[s].msgs = <<>> => s = in_msg[1]

\* the listener has just inserted an entry and not yet pushed the message
C12_Witness ==
    /\ buffer_lock = "main"
    /\ in_pc = "record"
    /\ in_msg[1] \in DOMAIN message_buffer
    /\ message_buffer[in_msg[1]].msgs = <<>>
    /\ flushed[in_msg[1]] # <<>>

\* sender s has unflushed messages, the latest recorded at least TTL ago
Silent(s) ==
    /\ Unflushed(s) # <<>>
    /\ last_record[s] >= 0
    /\ now - last_record[s] >= TTL
    /\ next_tick <= MaxTime

\* every record of sender s is flushed and every unit of s is on the queue
Dispatched(s) ==
    /\ Unflushed(s) = <<>>
    /\ dispatched[s] = flushed[s]

\* C13: records of one sender less than TTL apart are never separated by a
\* flush, a flush makes exactly one unit holding all the sender's messages
\* since its previous flush joined with single spaces in arrival order, and
\* after a silence of TTL the unit is eventually put on the dispatch queue,
\* unless the sender records again, the receiver is gone or the queue stays
\* full for ever.
C13_BurstOneUnit ==
    /\ [][\A s \in Senders :
            (/\ Len(recorded'[s]) > Len(recorded[s])
             /\ last_record[s] >= 0
             /\ now - last_record[s] < TTL)
                => /\ Unflushed(s) # <<>>
                   /\ Unflushed(s)' = Append(Unflushed(s), in_msg[2])
                   /\ flushed'[s] = flushed[s]]_vars
    /\ [][\A s \in Senders :
            Flushes(s) =>
                /\ flushed'[s] = Append(flushed[s],
                                        Join(Unflushed(s), <<" ">>))
                /\ covered'[s] = Len(recorded[s])]_vars
    /\ \/ <>[](Len(queue) = QueueCap)
       \/ \A s \in Senders :
             Silent(s) ~> \/ Dispatched(s)
                          \/ Recording(s)
                          \/ rx_closed

\* two records of one sender one clock unit apart, flushed as one unit that
\* is on its way to the processor
C13_Witness ==
    \E s \in Senders :
        /\ Len(recorded[s]) = 2
        /\ last_gap[s] > 0
        /\ last_gap[s] < TTL
        /\ Len(flushed[s]) = 1
        /\ Len(flushed[s][1]) = 3
        /\ dispatched[s] = flushed[s]
        /\ ~rx_closed

\* C14: the chunks of a reply are attempted in order, each exactly once,
\* whether or not a send fails, and once the last chunk is past the reply is
\* in history as an entry of the bot's own nickname, right after the unit's
\* user turn.
C14_FailedChunkGoesOn ==
    \A k \in 1..Len(ulog) :
        ulog[k].outcome = "ok" =>
            LET cs == split_into_chunks(ulog[k].reply, ChunkLimit)
                sent == ulog[k].sent
            IN /\ Len(sent) <= Len(cs)
               /\ \A i \in 1..Len(sent) : sent[i][1] = cs[i]
               /\ (k = Len(ulog) /\ proc_pc = "chunk")
                     => chunks = SubSeq(cs, Len(sent) + 1, Len(cs))
               /\ (k = Len(ulog) /\ proc_pc = "sleep")
                     => chunks = SubSeq(cs, Len(sent), Len(cs))
               /\ (k = Len(ulog) /\ proc_pc = "append") => Len(sent) = Len(cs)
               /\ Done(k) =>
                     /\ Len(sent) = Len(cs)
                     /\ ulog[k].replied
                     /\ ulog[k].hidx + 1 <= Len(history)
                     /\ history[ulog[k].hidx + 1]
                           = Format(Nickname, ulog[k].reply)

\* a reply whose first chunk failed to send, whose second chunk was sent, and
\* which is in history
C14_Witness ==
    \E k \in 1..Len(ulog) :
        /\ Done(k)
        /\ ulog[k].outcome = "ok"
        /\ Len(ulog[k].sent) >= 2
        /\ ~ulog[k].sent[1][2]
        /\ ulog[k].sent[2][2]
        /\ ulog[k].replied

\* the step is a scheduler send that failed for a unit of sender s
Drops(s) == dropped'[s] # dropped[s]

\* C15: once the receiver is gone a scheduler send fails at once, whatever
\* the channel held; the failed unit goes nowhere (not onto the channel, not
\* back into the table, not back among the candidates), the scheduler moves
\* to the next candidate of the tick, and it is never blocked: the sends of
\* the tick, the end of the tick and the next tick all remain possible.
C15_ClosedReceiverDrops ==
    /\ [][\A s \in Senders :
            Drops(s) =>
                /\ rx_closed
                /\ Head(to_process)[1] = s
                /\ dropped'[s] = Append(dropped[s], Head(to_process)[2])
                /\ to_process' = Tail(to_process)
                /\ message_buffer' = message_buffer
                /\ queue' = queue
                /\ dispatched' = dispatched
                /\ sched_pc' = "send"]_vars
    /\ [][rx_closed => /\ rx_closed'
                       /\ queue' = <<>>
                       /\ dispatched' = dispatched]_vars
    /\ [](rx_closed =>
            /\ \A s \in DOMAIN message_buffer :
                  buffer_lock = "free"
                      => message_buffer[s].msgs = Unflushed(s)
            /\ (sched_pc = "send" /\ to_process # <<>>) => ENABLED SchedSend
            /\ (sched_pc = "send" /\ to_process = <<>>) => ENABLED SchedLoop
            /\ (sched_pc = "tick" /\ now >= next_tick) => ENABLED SchedTick)

\* both senders have had a unit dropped, and a later tick has started
C15_Witness ==
    /\ rx_closed
    /\ \A s \in Senders : dropped[s] # <<>>
    /\ sched_pc = "lock"

\* the tokens of the units made so far for sender s, in order
FlushedTokens(s) == split_whitespace(Join(flushed[s], <<" ">>))

\* the scheduler is suspended on a send to a full channel
Suspended == sched_pc = "send" /\ to_process # <<>> /\ Len(queue) = QueueCap

\* C16: with the receiver open, the units made for a sender hold, in order
\* and once each, exactly the sender's messages recorded up to its latest
\* flush; the messages recorded since are in the sender's table entry, once
\* each and in order, and a sender without such messages has no entry; every
\* unit made is on the channel or has been, or waits among the candidates.
C16_NoLossNoDuplicate ==
    ~rx_closed =>
        \A s \in Senders :
            /\ covered[s] <= Len(recorded[s])
            /\ FlushedTokens(s) = SubSeq(recorded[s], 1, covered[s])
            /\ Len(flushed[s]) <= covered[s]
            /\ buffer_lock = "free" =>
                  IF Unflushed(s) = <<>>
                  THEN s \notin DOMAIN message_buffer
                  ELSE /\ s \in DOMAIN message_buffer
                       /\ message_buffer[s].msgs = Unflushed(s)
            /\ LET waiting == {i \in 1..Len(to_process) :
                                  to_process[i][1] = s}
               IN /\ Cardinality(waiting) <= 1
                  /\ Len(dispatched[s]) + Cardinality(waiting)
                        = Len(flushed[s])
                  /\ dispatched[s] = SubSeq(flushed[s], 1, Len(dispatched[s]))
                  /\ \A i \in waiting :
                        to_process[i][2] = flushed[s][Len(flushed[s])]
                  /\ dropped[s] = <<>>

\* the scheduler is suspended on a full channel with a unit of a sender who
\* has recorded again in the meantime
C16_Witness ==
    /\ Suspended
    /\ ~rx_closed
    /\ buffer_lock = "free"
    /\ \E s \in DOMAIN message_buffer :
          /\ Head(to_process)[1] = s
          /\ message_buffer[s].msgs # <<>>
          /\ message_buffer[s].msgs = Unflushed(s)

\* the successive slices of max_size characters of a token
Slices(tok, max_size) ==
    [j \in 1..((Len(tok) + max_size - 1) \div max_size) |->
        SubSeq(tok, (j - 1) * max_size + 1,
               IF j * max_size < Len(tok) THEN j * max_size ELSE Len(tok))]

\* the tokens found in a run of chunks
TokensOf(out) == split_whitespace(Rejoined(out))

\* C17: in the output of split, every token longer than max_size characters
\* is a run of ceil(len / max_size) consecutive chunks that are exactly its
\* successive slices, all of max_size characters except possibly the last;
\* everything that precedes the token in the text is in the chunks before the
\* run (the pending chunk was emitted first) and everything that follows it is
\* in the chunks after the run (no slice is merged with another token).
C17_OversizedTokenSliced ==
    sp_pc = "done" =>
        LET toks == split_whitespace(sp_text)
        IN \A i \in 1..Len(toks) :
              Len(toks[i]) > sp_max =>
                 LET sl == Slices(toks[i], sp_max)
                     k == Len(sl)
                 IN /\ k * sp_max >= Len(toks[i])
                    /\ (k - 1) * sp_max < Len(toks[i])
                    /\ \A j \in 1..(k - 1) : Len(sl[j]) = sp_max
                    /\ Len(sl[k]) \in 1..sp_max
                    /\ Concat(sl) = toks[i]
                    /\ \E p \in 1..(Len(sp_out) - k + 1) :
                          /\ SubSeq(sp_out, p, p + k - 1) = sl
                          /\ TokensOf(SubSeq(sp_out, 1, p - 1))
                                = SlicedTokens(
                                     Join(SubSeq(toks, 1, i - 1), <<" ">>),
                                     sp_max)
                          /\ TokensOf(SubSeq(sp_out, p + k, Len(sp_out)))
                                = SlicedTokens(
                                     Join(SubSeq(toks, i + 1, Len(toks)),
                                          <<" ">>),
                                     sp_max)

\* a token of 2 * max_size + 1 characters, alone in the text, comes out as
\* three chunks of max_size, max_size and one characters (the shape of a
\* 1200-character token with max_size 500)
C17_Witness ==
    /\ sp_pc = "done"
    /\ sp_max >= 2
    /\ split_whitespace(sp_text) = <<sp_text>>
    /\ Len(sp_text) = 2 * sp_max + 1
    /\ Len(sp_out) = 3
    /\ Len(sp_out[1]) = sp_max
    /\ Len(sp_out[2]) = sp_max
    /\ Len(sp_out[3]) = 1

\* the user turn of the k-th received unit has been pushed
Pushed(k) == ulog[k].hidx > 0

\* the number of entries the k-th received unit has put into the history
Entries(k) == (IF Pushed(k) THEN 1 ELSE 0) + (IF ulog[k].replied THEN 1 ELSE 0)

RECURSIVE EntriesUpTo(_)
\* the number of entries the first k received units have put into the history
EntriesUpTo(k) == IF k = 0 THEN 0 ELSE EntriesUpTo(k - 1) + Entries(k)

RECURSIVE OkUpTo(_)
\* the number of units among the first k whose backend call succeeded
OkUpTo(k) ==
    IF k = 0 THEN 0
    ELSE OkUpTo(k - 1) + (IF ulog[k].outcome = "ok" THEN 1 ELSE 0)

TextsOf(units, s) ==
    LET own == SelectSeq(units, LAMBDA u : u[1] = s)
    IN [i \in 1..Len(own) |-> own[i][2]]

\* the texts of the units of sender s the processor has received, in order
Received(s) == TextsOf([k \in 1..Len(ulog) |-> ulog[k].unit], s)

Tested(k) == k < Len(ulog) \/ proc_pc \notin {"lock", "build", "drop"}

\* C20: for a non-leader, the first unit ever received is the only one
\* suppressed: it sees a snapshot of one turn and no backend call is made for
\* it, and every later unit, whatever its sender and whatever became of the
\* calls before it, sees a snapshot of at least two turns (the history never
\* being shorter than at the unit before) and has the backend called once.
C20_OnlyFirstSuppressed ==
    ~leader =>
        \A k \in 1..Len(ulog) :
            /\ Pushed(k) =>
                  /\ ulog[k].snaplen = ulog[k].hidx
                  /\ (k = 1 => ulog[k].snaplen = 1)
                  /\ (k > 1 => /\ ulog[k].snaplen >= 2
                               /\ ulog[k].snaplen > ulog[k - 1].snaplen)
            /\ Tested(k) =>
                  /\ (k = 1 => ulog[k].calls = 0 /\ ulog[k].outcome = "skipped")
                  /\ (k > 1 => ulog[k].calls = 1 /\ ulog[k].outcome # "skipped")

\* a non-leader has skipped its first unit, had the call for the second fail
\* and called the backend for the third, a unit of another sender
C20_Witness ==
    /\ ~leader
    /\ Len(ulog) = 3
    /\ ulog[1].outcome = "skipped"
    /\ ulog[2].outcome = "err"
    /\ ulog[3].calls = 1
    /\ ulog[3].unit[1] # ulog[2].unit[1]
====
